---- MODULE Spec2Model ----
(***************************************************************************)
(* Checkmk plugin "kubernetes_namespaces".                                 *)
(*                                                                         *)
(* Two programs are modelled:                                              *)
(*   - the server-side plugin (agent_based/kubernetes_namespaces.py):      *)
(*     parse_kubernetes_namespaces, discover_kubernetes_namespaces and     *)
(*     check_kubernetes_namespaces, run one after the other on one agent   *)
(*     output (specification Spec);                                        *)
(*   - the agent plugin (agents/plugins/kubernetes_namespaces.py): one     *)
(*     collector run against a cluster that may change between the         *)
(*     kubectl calls (specification SpecAgent).                            *)
(*                                                                         *)
(* Python dicts are functions with a finite DOMAIN, lists are sequences,   *)
(* generators are the sequence of what they yield.                         *)
(***************************************************************************)
EXTENDS Integers, Sequences, FiniteSets, TLC

\* ------------------------------------------------------------------------
\* Bounds of the model
\* ------------------------------------------------------------------------
MaxRules == 2
MaxLines == 3
MaxKindsPresent == 2
MaxActive == 4

\* ------------------------------------------------------------------------
\* Python helpers
\* ------------------------------------------------------------------------
EmptyMap == [n \in {} |-> 0]

\* d.get(k, default)
Get(d, k, default) == IF k \in DOMAIN d THEN d[k] ELSE default

\* truth value of a dict
Truthy(d) == DOMAIN d # {}

Range(s) == {s[i] : i \in DOMAIN s}

Count(s, x) == Cardinality({i \in DOMAIN s : s[i] = x})

RECURSIVE Flatten(_)
Flatten(ss) == IF ss = <<>> THEN <<>> ELSE Head(ss) \o Flatten(Tail(ss))

SeqsUpTo(S, n) == UNION {[1..k -> S] : k \in 0..n}

\* ------------------------------------------------------------------------
\* Names.  Kubernetes names are DNS labels: never empty, never holding the
\* separator.  A namespace or a resource may be called like a resource kind.
\* ------------------------------------------------------------------------
NsNames == {"prod", "deployments"}
ResNames == {"web", "pods"}

\* the order in which a dict of the model is iterated (Python: insertion order)
NameOrder == <<"web", "pods", "prod", "deployments">>

Keys(d) == SelectSeq(NameOrder, LAMBDA n : n \in DOMAIN d)

\* ------------------------------------------------------------------------
\* Server-side plugin: constants
\* ------------------------------------------------------------------------
SEPARATOR == " / "

SIMPLE_KUBERNETES_OBJECTS == {"pods"}

\* the keys of a namespace record besides 'name', in the order of as_dict():
\* the order in which namespace.items() yields them
KindOrder ==
    <<"pods", "persistent_volumes", "deployments", "daemonsets", "replicasets", "cronjobs">>

Kinds == Range(KindOrder)

OK == "OK"
WARN == "WARN"
CRIT == "CRIT"

\* SEPARATOR.join(parts): an item is the sequence of its name tokens with the
\* separator between them
RECURSIVE Join(_)
Join(parts) ==
    IF Len(parts) <= 1 THEN parts
    ELSE <<Head(parts), SEPARATOR>> \o Join(Tail(parts))

\* item.split(SEPARATOR)
Split(item) == SelectSeq(item, LAMBDA t : t # SEPARATOR)

\* ------------------------------------------------------------------------
\* bytes_to_human_readable: the text as <<digits before the point>> or
\* <<digits before, two digits after>> and the unit.  bytes / 1024 ** k is exact
\* in a double, and '.2f' rounds the exact value half to even.
\* ------------------------------------------------------------------------
RoundHalfEven(num, den) ==
    LET q == num \div den
        r == num % den
    IN IF 2 * r > den \/ (2 * r = den /\ q % 2 = 1) THEN q + 1 ELSE q

Scaled(bytes, unit, name) ==
    LET h == RoundHalfEven(bytes * 100, unit)
    IN [digits |-> <<h \div 100, h % 100>>, unit |-> name]

bytes_to_human_readable(bytes) ==
    IF bytes < 1024 THEN [digits |-> <<bytes>>, unit |-> "B"]
    ELSE IF bytes < 1024 * 1024 THEN Scaled(bytes, 1024, "KB")
    ELSE IF bytes < 1024 * 1024 * 1024 THEN Scaled(bytes, 1024 * 1024, "MB")
    ELSE Scaled(bytes, 1024 * 1024 * 1024, "GB")

\* ------------------------------------------------------------------------
\* parse_kubernetes_namespaces.  A line of the string table is the list of its
\* columns; a column is the text of a dict (repr) or some other text.
\* ------------------------------------------------------------------------
Repr(record) == [text |-> "dict", value |-> record]

Garbage == [text |-> "garbage"]

\* eval(text): the dict of a dict's text, an exception for anything else
EvalRaises(column) == column.text # "dict"

Eval(column) == column.value

\* the loop of parse_kubernetes_namespaces from line i on, parsed_lines so far
RECURSIVE ParseFrom(_, _, _)
ParseFrom(string_table, i, parsed_lines) ==
    IF i > Len(string_table) THEN parsed_lines
    ELSE LET line == string_table[i]
         IN IF Len(line) > 0
            THEN IF EvalRaises(line[1])
                 THEN <<>>
                 ELSE ParseFrom(string_table, i + 1, Append(parsed_lines, Eval(line[1])))
            ELSE ParseFrom(string_table, i + 1, parsed_lines)

parse_kubernetes_namespaces(string_table) == ParseFrom(string_table, 1, <<>>)

\* ------------------------------------------------------------------------
\* discover_kubernetes_namespaces.  A discovery rule is a dict whose keys are
\* among 'namespace' and the resource kinds (a kind's value is True).
\* ------------------------------------------------------------------------
RuleNamespace(rule) == Get(rule, "namespace", "")

_get_namespaces_from_parameters(parameters) ==
    {parameters[i].namespace : i \in {j \in DOMAIN parameters : "namespace" \in DOMAIN parameters[j]}}

\* mutant: the pods item is yielded without the test that there are pods
DiscoverServiceUntested(kubernetes_object, kubernetes_object_name, namespace_name) ==
    IF kubernetes_object_name \notin SIMPLE_KUBERNETES_OBJECTS
    THEN [i \in 1..Len(Keys(kubernetes_object)) |->
            Join(<<namespace_name, kubernetes_object_name, Keys(kubernetes_object)[i]>>)]
    ELSE <<Join(<<namespace_name, kubernetes_object_name>>)>>

_discover_service_in_namespace(kubernetes_object, kubernetes_object_name, namespace_name) ==
    IF kubernetes_object_name \notin SIMPLE_KUBERNETES_OBJECTS
    THEN [i \in 1..Len(Keys(kubernetes_object)) |->
            Join(<<namespace_name, kubernetes_object_name, Keys(kubernetes_object)[i]>>)]
    ELSE IF Truthy(kubernetes_object)
         THEN <<Join(<<namespace_name, kubernetes_object_name>>)>>
         ELSE <<>>

\* mutant: a default rule also counts for a namespace that a rule names
RuleSelectsDefaultAlways(rule, namespace_name, namespaces_from_parameters) ==
    IF RuleNamespace(rule) # "" /\ RuleNamespace(rule) = namespace_name
    THEN TRUE
    ELSE RuleNamespace(rule) = ""

\* whether the rule is one whose flags count for the namespace: the if / elif
\* of the loop over the rules
RuleSelects(rule, namespace_name, namespaces_from_parameters) ==
    IF RuleNamespace(rule) # "" /\ RuleNamespace(rule) = namespace_name
    THEN TRUE
    ELSE RuleNamespace(rule) = "" /\ namespace_name \notin namespaces_from_parameters

\* the loop over a rule's items: parameter == kubernetes_object_name and parameter_discovery
RuleFlag(rule, kubernetes_object_name) ==
    kubernetes_object_name \in DOMAIN rule /\ rule[kubernetes_object_name] = TRUE

\* what one (namespace, kind) pair of the two outer loops yields
DiscoverObject(namespace_parameters, section_namespace, kubernetes_object_name) ==
    LET namespace_name == section_namespace.name
        kubernetes_object == section_namespace[kubernetes_object_name]
        found == _discover_service_in_namespace(kubernetes_object,
                                                kubernetes_object_name, namespace_name)
    IN IF namespace_parameters = <<>>
       THEN found
       ELSE LET namespaces_from_parameters ==
                    _get_namespaces_from_parameters(namespace_parameters)
            IN Flatten([i \in 1..Len(namespace_parameters) |->
                    IF RuleSelects(namespace_parameters[i], namespace_name,
                                   namespaces_from_parameters)
                       /\ RuleFlag(namespace_parameters[i], kubernetes_object_name)
                    THEN found ELSE <<>>])

DiscoverNamespace(namespace_parameters, section_namespace) ==
    IF section_namespace.name # ""
    THEN Flatten([k \in 1..Len(KindOrder) |->
            DiscoverObject(namespace_parameters, section_namespace, KindOrder[k])])
    ELSE <<>>

discover_kubernetes_namespaces(namespace_parameters, section) ==
    Flatten([i \in 1..Len(section) |-> DiscoverNamespace(namespace_parameters, section[i])])

\* ------------------------------------------------------------------------
\* check_kubernetes_namespaces.  What the generator yields, in order.
\* ------------------------------------------------------------------------
Metric(name, value) == [type |-> "Metric", name |-> name, value |-> value]

MetricLevels(name, value, levels, boundaries) ==
    [type |-> "Metric", name |-> name, value |-> value,
     levels |-> levels, boundaries |-> boundaries]

Result(state, summary) == [type |-> "Result", state |-> state, summary |-> summary]

\* an f-string: its text with {} for the values, and the values
Text(fmt, args) == [fmt |-> fmt, args |-> args]

\* mutant: the warning test comes last and replaces a critical state
CronjobStateWarnLast(active, warning, critical) ==
    LET after_critical == IF active >= critical THEN CRIT ELSE OK
    IN IF active >= warning THEN WARN ELSE after_critical

\* the state of a cronjob: the two ifs on the active count
CronjobState(active, warning, critical) ==
    LET after_warning == IF active >= warning THEN WARN ELSE OK
    IN IF active >= critical THEN CRIT ELSE after_warning

CheckCronjobs(kubernetes_object, kubernetes_object_single_name, params) ==
    LET cronjob == Get(kubernetes_object, kubernetes_object_single_name, EmptyMap)
        active == Get(cronjob, "active", 0)
        state == CronjobState(active, params.threshold_cronjob_count[1],
                              params.threshold_cronjob_count[2])
    IN <<Metric("cronjobs_active", active),
         Result(state, Text("active: {}", <<active>>))>>

DaemonsetState(number_unavailable) == IF number_unavailable > 0 THEN CRIT ELSE OK

CheckDaemonsets(kubernetes_object, kubernetes_object_single_name) ==
    LET daemonset == Get(kubernetes_object, kubernetes_object_single_name, EmptyMap)
        current_number_scheduled == Get(daemonset, "current_number_scheduled", 0)
        desired_number_scheduled == Get(daemonset, "desired_number_scheduled", 0)
        number_ready == Get(daemonset, "number_ready", 0)
        number_unavailable == Get(daemonset, "number_unavailable", 0)
    IN <<Metric("daemonsets_current_number_scheduled", current_number_scheduled),
         Metric("daemonsets_desired_number_scheduled", desired_number_scheduled),
         Metric("daemonsets_number_ready", number_ready),
         Metric("daemonsets_number_unavailable", number_unavailable),
         Result(DaemonsetState(number_unavailable),
                Text("current: {}, desired: {}, ready: {}, unavailable: {}",
                     <<current_number_scheduled, desired_number_scheduled,
                       number_ready, number_unavailable>>))>>

\* deployments and replicasets: critical if not all replicas are ready
ReplicasState(replicas, ready_replicas) == IF replicas # ready_replicas THEN CRIT ELSE OK

\* mutant: the first deployment of the namespace instead of the named one
DeploymentFirst(kubernetes_object, kubernetes_object_single_name) ==
    kubernetes_object[Keys(kubernetes_object)[1]]

\* the deployment the item names: kubernetes_object.get(kubernetes_object_single_name, {})
DeploymentOfItem(kubernetes_object, kubernetes_object_single_name) ==
    Get(kubernetes_object, kubernetes_object_single_name, EmptyMap)

CheckDeployments(kubernetes_object, kubernetes_object_single_name) ==
    LET deployment == DeploymentOfItem(kubernetes_object, kubernetes_object_single_name)
        replicas == Get(deployment, "replicas", 0)
        ready_replicas == Get(deployment, "ready_replicas", 0)
        unavailable_replicas == Get(deployment, "unavailable_replicas", 0)
    IN <<Metric("deployments_replicas", replicas),
         Metric("deployments_ready_replicas", ready_replicas),
         Metric("deployments_unavailable_replicas", unavailable_replicas),
         Result(ReplicasState(replicas, ready_replicas),
                Text("replicas: {}, ready: {}, unavailable: {}",
                     <<replicas, ready_replicas, unavailable_replicas>>))>>

\* mutant: a percentage equal to a threshold triggers it
PersistentVolumeStateInclusive(percentage, warning, critical) ==
    LET after_warning == IF percentage >= warning THEN WARN ELSE OK
    IN IF percentage >= critical THEN CRIT ELSE after_warning

\* the state of a persistent volume: the two ifs on the percentage
PersistentVolumeState(percentage, warning, critical) ==
    LET after_warning == IF percentage > warning THEN WARN ELSE OK
    IN IF percentage > critical THEN CRIT ELSE after_warning

\* summary = f'{kubernetes_object}', the default no branch has replaced
DefaultSummary == Text("{kubernetes_object}", <<>>)

CheckPersistentVolumes(kubernetes_object, resource_name, params) ==
    IF resource_name \in DOMAIN kubernetes_object /\ Truthy(kubernetes_object[resource_name])
    THEN LET persistent_volume == kubernetes_object[resource_name]
             capacity == Get(persistent_volume, "capacity", 0)
             used == Get(persistent_volume, "used", 0)
             percentage == Get(persistent_volume, "percentage", 0)
             warning == params.percentage_persistent_volumes[1]
             critical == params.percentage_persistent_volumes[2]
         IN <<MetricLevels("persistent_volume_used", used, <<>>, <<0, capacity>>),
              MetricLevels("persistent_volume_capacity", capacity, <<>>, <<0, capacity>>),
              MetricLevels("persistent_volume_percentage", percentage,
                           <<warning, critical>>, <<0, 100>>),
              Result(PersistentVolumeState(percentage, warning, critical),
                     Text("used: {} capacity: {} percentage: {} %",
                          <<bytes_to_human_readable(used),
                            bytes_to_human_readable(capacity),
                            [digits |-> <<percentage>>, unit |-> "%"]>>))>>
    ELSE <<Result(OK, DefaultSummary)>>

\* len(containers.get(bucket, [])) summed over the pods of the namespace
RECURSIVE SumBucket(_, _, _)
SumBucket(kubernetes_object, names, bucket) ==
    IF names = <<>> THEN 0
    ELSE LET containers == Get(kubernetes_object[Head(names)], "containers", EmptyMap)
         IN (IF Truthy(containers) THEN Len(Get(containers, bucket, <<>>)) ELSE 0)
            + SumBucket(kubernetes_object, Tail(names), bucket)

PodsState(crashing) == IF crashing > 0 THEN CRIT ELSE OK

CheckPods(kubernetes_object) ==
    LET crashing == SumBucket(kubernetes_object, Keys(kubernetes_object), "crashing")
        running == SumBucket(kubernetes_object, Keys(kubernetes_object), "running")
        terminated == SumBucket(kubernetes_object, Keys(kubernetes_object), "terminated")
        waiting == SumBucket(kubernetes_object, Keys(kubernetes_object), "waiting")
    IN <<Metric("pods_running", running),
         Metric("pods_waiting", waiting),
         Metric("pods_crashing", crashing),
         Metric("pods_terminated", terminated),
         Result(PodsState(crashing),
                Text("running: {}, waiting: {}, terminated: {}, crashing: {}",
                     <<running, waiting, terminated, crashing>>))>>

CheckReplicasets(kubernetes_object, kubernetes_object_single_name) ==
    LET replicaset == Get(kubernetes_object, kubernetes_object_single_name, EmptyMap)
        replicas == 0 + Get(replicaset, "replicas", 0)
        ready_replicas == 0 + Get(replicaset, "ready_replicas", 0)
        unavailable_replicas == 0 + Get(replicaset, "unavailable_replicas", 0)
    IN <<Metric("replicasets_replicas", replicas),
         Metric("replicasets_ready_replicas", ready_replicas),
         Metric("replicasets_unavailable_replicas", unavailable_replicas),
         Result(ReplicasState(replicas, ready_replicas),
                Text("replicas: {}, ready: {}, unavailable: {}",
                     <<replicas, ready_replicas, unavailable_replicas>>))>>

\* the kind the item is taken to name when the loop is at kubernetes_object_name:
\* the last part for a simple kind, the last but one for the others
KindFromItem(item, kubernetes_object_name) ==
    LET parts == Split(item)
    IN IF kubernetes_object_name \in SIMPLE_KUBERNETES_OBJECTS
       THEN parts[Len(parts)]
       ELSE parts[Len(parts) - 1]

\* one turn of the loop over namespace.items()
CheckObject(item, params, namespace, kubernetes_object_name) ==
    LET kubernetes_object == namespace[kubernetes_object_name]
        parts == Split(item)
        resource_name == parts[Len(parts)]
    IN IF kubernetes_object_name # KindFromItem(item, kubernetes_object_name) THEN <<>>
       ELSE IF ~Truthy(kubernetes_object) THEN <<>>
       ELSE CASE kubernetes_object_name = "cronjobs" ->
                    CheckCronjobs(kubernetes_object, resource_name, params)
              [] kubernetes_object_name = "daemonsets" ->
                    CheckDaemonsets(kubernetes_object, resource_name)
              [] kubernetes_object_name = "deployments" ->
                    CheckDeployments(kubernetes_object, resource_name)
              [] kubernetes_object_name = "persistent_volumes" ->
                    CheckPersistentVolumes(kubernetes_object, resource_name, params)
              [] kubernetes_object_name = "pods" ->
                    CheckPods(kubernetes_object)
              [] kubernetes_object_name = "replicasets" ->
                    CheckReplicasets(kubernetes_object, resource_name)

check_kubernetes_namespaces(item, params, section) ==
    LET namespace_name == Split(item)[1]
        namespace_list == SelectSeq(section, LAMBDA x : x.name = namespace_name)
    IN IF namespace_list # <<>>
       THEN Flatten([k \in 1..Len(KindOrder) |->
                CheckObject(item, params, namespace_list[1], KindOrder[k])])
       ELSE <<>>

\* ------------------------------------------------------------------------
\* Agent plugin: what get_persistent_volumes makes of one line of df's output.
\* A field of the line is a number (isdigit) or some other text.
\* ------------------------------------------------------------------------
Num(n) == [isdigit |-> TRUE, value |-> n]

Word(w) == [isdigit |-> FALSE, word |-> w]

\* (used, capacity) in 1-KiB blocks, among the samples of the model, for which the
\* double (used / capacity) * 100 falls just below the integer the exact
\* quotient is: int() then gives one less
FloatShort == {<<29, 100>>}

\* int((used / capacity) * 100), both in bytes
Percentage(used, capacity) ==
    ((used * 100) \div capacity)
        - (IF <<used \div 1024, capacity \div 1024>> \in FloatShort THEN 1 ELSE 0)

\* the entry stored for a claim from the last five fields of an accepted line
PersistentVolumeEntry(namespace, claimName, capacity_field, used_field, available_field) ==
    LET capacity == capacity_field.value * 1024
        used == used_field.value * 1024
        available == available_field.value * 1024
    IN [namespace |-> namespace, pvc |-> claimName,
        percentage |-> Percentage(used, capacity),
        capacity |-> capacity, used |-> used, available |-> available]

\* ------------------------------------------------------------------------
\* Agent plugin: the extractors.  A function that can raise returns Returns(v)
\* or Raises(exception).  x.get(k) as a condition is the truth value of a dict
\* or list (HasDict), a string (HasStr) or a number (HasInt) under the key.
\* ------------------------------------------------------------------------
Returns(v) == [raised |-> FALSE, value |-> v]

Raises(exception) == [raised |-> TRUE, exception |-> exception]

HasDict(d, k) == k \in DOMAIN d /\ DOMAIN d[k] # {}

HasStr(d, k) == k \in DOMAIN d /\ d[k] # ""

HasInt(d, k) == k \in DOMAIN d /\ d[k] # 0

\* d[k] = v
Put(d, k, v) == [n \in DOMAIN d \cup {k} |-> IF n = k THEN v ELSE d[n]]

\* namespace_resources['items'] raises KeyError on kubectl's empty dict
HasItems(namespace_resources) == "items" \in DOMAIN namespace_resources

\* [x for x in namespace_resources['items'] if x['kind'] == kind]
ItemsOfKind(namespace_resources, kind) ==
    SelectSeq(namespace_resources.items, LAMBDA x : x.kind = kind)

\* ---- get_pods
FreshPod ==
    [containers |-> [crashing |-> <<>>, running |-> <<>>,
                     waiting |-> <<>>, terminated |-> <<>>]]

\* mutant: every waiting container counts as crashing
BucketsOfAnyWaiting(container_status) ==
    IF ~HasDict(container_status, "state") THEN <<>>
    ELSE LET state == container_status.state
         IN (IF HasDict(state, "waiting") THEN <<"waiting", "crashing">> ELSE <<>>)
            \o (IF HasDict(state, "running") THEN <<"running">> ELSE <<>>)
            \o (IF HasDict(state, "terminated") THEN <<"terminated">> ELSE <<>>)

\* the buckets one container status is appended to, in the order of the appends
BucketsOf(container_status) ==
    IF ~HasDict(container_status, "state") THEN <<>>
    ELSE LET state == container_status.state
         IN (IF HasDict(state, "waiting")
             THEN <<"waiting">> \o
                  (IF Get(state.waiting, "reason", "") = "CrashLoopBackOff"
                   THEN <<"crashing">> ELSE <<>>)
             ELSE <<>>)
            \o (IF HasDict(state, "running") THEN <<"running">> ELSE <<>>)
            \o (IF HasDict(state, "terminated") THEN <<"terminated">> ELSE <<>>)

RECURSIVE AppendTo(_, _, _)
AppendTo(containers, buckets, name) ==
    IF buckets = <<>> THEN containers
    ELSE AppendTo([containers EXCEPT ![Head(buckets)] = Append(@, name)],
                  Tail(buckets), name)

\* pods[pod['metadata']['name']] is there to append to
PodEntryExists(pods, pod) ==
    /\ "metadata" \in DOMAIN pod
    /\ "name" \in DOMAIN pod.metadata
    /\ pod.metadata.name \in DOMAIN pods

\* the loop over pod['status']['containerStatuses'] from status i on
RECURSIVE ContainerStatusLoop(_, _, _, _)
ContainerStatusLoop(pods, pod, statuses, i) ==
    IF i > Len(statuses) THEN Returns(pods)
    ELSE LET buckets == BucketsOf(statuses[i])
         IN IF buckets = <<>> THEN ContainerStatusLoop(pods, pod, statuses, i + 1)
            ELSE IF ~PodEntryExists(pods, pod) THEN Raises("KeyError")
            ELSE ContainerStatusLoop(
                    [pods EXCEPT ![pod.metadata.name].containers =
                        AppendTo(@, buckets, statuses[i].name)],
                    pod, statuses, i + 1)

\* one turn of the loop over the pods
PodStep(pods, pod) ==
    LET named == IF HasDict(pod, "metadata") /\ HasStr(pod.metadata, "name")
                 THEN Put(pods, pod.metadata.name, FreshPod)
                 ELSE pods
    IN IF HasDict(pod, "status") /\ HasDict(pod.status, "containerStatuses")
       THEN ContainerStatusLoop(named, pod, pod.status.containerStatuses, 1)
       ELSE Returns(named)

RECURSIVE PodLoop(_, _, _)
PodLoop(pods, pods_resources, i) ==
    IF i > Len(pods_resources) THEN Returns(pods)
    ELSE LET step == PodStep(pods, pods_resources[i])
         IN IF step.raised THEN step ELSE PodLoop(step.value, pods_resources, i + 1)

get_pods(namespace_resources) ==
    IF ~HasItems(namespace_resources) THEN Raises("KeyError")
    ELSE PodLoop(EmptyMap, ItemsOfKind(namespace_resources, "Pod"), 1)

\* ---- get_deployments, get_daemonsets, get_cronjobs
DeploymentIncluded(deployment) ==
    /\ HasDict(deployment, "metadata")
    /\ HasStr(deployment.metadata, "name")
    /\ HasDict(deployment, "status")
    /\ HasInt(deployment.status, "replicas")
    /\ \/ HasInt(deployment.status, "readyReplicas")
       \/ HasInt(deployment.status, "unavailableReplicas")

DeploymentSummary(deployment) ==
    [replicas |-> deployment.status.replicas,
     ready_replicas |-> Get(deployment.status, "readyReplicas", 0),
     unavailable_replicas |-> Get(deployment.status, "unavailableReplicas", 0)]

DaemonsetIncluded(daemonset) ==
    /\ HasDict(daemonset, "metadata")
    /\ HasStr(daemonset.metadata, "name")
    /\ HasDict(daemonset, "status")
    /\ HasInt(daemonset.status, "currentNumberScheduled")
    /\ \/ HasInt(daemonset.status, "numberReady")
       \/ HasInt(daemonset.status, "numberUnavailable")

DaemonsetSummary(daemonset) ==
    [current_number_scheduled |-> daemonset.status.currentNumberScheduled,
     number_ready |-> Get(daemonset.status, "numberReady", 0),
     number_unavailable |-> Get(daemonset.status, "numberUnavailable", 0),
     desired_number_scheduled |-> Get(daemonset.status, "desiredNumberScheduled", 0)]

CronjobIncluded(cronjob) ==
    /\ HasDict(cronjob, "metadata")
    /\ HasStr(cronjob.metadata, "name")
    /\ HasDict(cronjob, "status")

CronjobSummary(cronjob) == [active |-> Len(Get(cronjob.status, "active", <<>>))]

\* the condition and the entry of the loop of get_<kind>s
IncludedAs(kind, resource) ==
    CASE kind = "Deployment" -> DeploymentIncluded(resource)
      [] kind = "DaemonSet" -> DaemonsetIncluded(resource)
      [] kind = "CronJob" -> CronjobIncluded(resource)

SummaryAs(kind, resource) ==
    CASE kind = "Deployment" -> DeploymentSummary(resource)
      [] kind = "DaemonSet" -> DaemonsetSummary(resource)
      [] kind = "CronJob" -> CronjobSummary(resource)

\* the loop over the resources of a kind: the entry of every included resource
\* is stored under its name
RECURSIVE StoreLoop(_, _, _, _)
StoreLoop(summary, resources, i, kind) ==
    IF i > Len(resources) THEN summary
    ELSE StoreLoop(IF IncludedAs(kind, resources[i])
                   THEN Put(summary, resources[i].metadata.name,
                            SummaryAs(kind, resources[i]))
                   ELSE summary,
                   resources, i + 1, kind)

\* get_deployments, get_daemonsets, get_cronjobs
ExtractKind(namespace_resources, kind) ==
    IF ~HasItems(namespace_resources) THEN Raises("KeyError")
    ELSE Returns(StoreLoop(EmptyMap, ItemsOfKind(namespace_resources, kind), 1, kind))

get_deployments(namespace_resources) == ExtractKind(namespace_resources, "Deployment")

get_daemonsets(namespace_resources) == ExtractKind(namespace_resources, "DaemonSet")

get_cronjobs(namespace_resources) == ExtractKind(namespace_resources, "CronJob")

\* ---- get_replicasets.  The outer condition is
\*   (metadata and not ownerReferences) or ownerReferences[0].get('kind') != 'Deployment'
\* and its second operand subscripts replicaset['metadata']['ownerReferences']
OwnerTestRaises(replicaset) == ~HasDict(replicaset, "metadata")

\* mutant: the last owner reference decides instead of the first
NotOfDeploymentLast(replicaset) ==
    \/ ~HasDict(replicaset.metadata, "ownerReferences")
    \/ Get(replicaset.metadata.ownerReferences[Len(replicaset.metadata.ownerReferences)],
           "kind", "") # "Deployment"

NotOfDeployment(replicaset) ==
    \/ ~HasDict(replicaset.metadata, "ownerReferences")
    \/ Get(replicaset.metadata.ownerReferences[1], "kind", "") # "Deployment"

ReplicasetIncluded(replicaset) ==
    /\ HasStr(replicaset.metadata, "name")
    /\ HasDict(replicaset, "status")
    /\ HasInt(replicaset.status, "replicas")
    /\ \/ HasInt(replicaset.status, "readyReplicas")
       \/ HasInt(replicaset.status, "availableReplicas")

ReplicasetSummary(replicaset) ==
    [replicas |-> replicaset.status.replicas,
     ready_replicas |-> Get(replicaset.status, "readyReplicas", 0),
     available_replicas |-> Get(replicaset.status, "availableReplicas", 0)]

RECURSIVE ReplicasetLoop(_, _, _)
ReplicasetLoop(replicasets, resources, i) ==
    IF i > Len(resources) THEN Returns(replicasets)
    ELSE LET replicaset == resources[i]
         IN IF OwnerTestRaises(replicaset) THEN Raises("KeyError")
            ELSE ReplicasetLoop(
                    IF NotOfDeployment(replicaset) /\ ReplicasetIncluded(replicaset)
                    THEN Put(replicasets, replicaset.metadata.name,
                             ReplicasetSummary(replicaset))
                    ELSE replicasets,
                    resources, i + 1)

get_replicasets(namespace_resources) ==
    IF ~HasItems(namespace_resources) THEN Raises("KeyError")
    ELSE ReplicasetLoop(EmptyMap, ItemsOfKind(namespace_resources, "ReplicaSet"), 1)

\* ---- get_persistent_volumes.  kubectl exec ... -- df <path> answers with
\* df_of[path]: the lines of its output, each the list of its fields (no line:
\* no output, for which kubectl() returns an empty dict).
RunningPods(namespace_resources) ==
    SelectSeq(namespace_resources.items,
              LAMBDA x : Get(x, "kind", "") = "Pod"
                         /\ Get(Get(x, "status", EmptyMap), "phase", "") = "Running")

\* the loop over the lines of one df output from line i on
RECURSIVE DfLineLoop(_, _, _, _, _)
DfLineLoop(persistent_volumes, df_lines, i, claimName, namespace) ==
    IF i > Len(df_lines) THEN Returns(persistent_volumes)
    ELSE LET df_line_split == df_lines[i]
             n == Len(df_line_split)
         IN IF ~(6 >= n /\ n > 1)
            THEN DfLineLoop(persistent_volumes, df_lines, i + 1, claimName, namespace)
            ELSE IF n < 5 THEN Raises("ValueError")
            ELSE LET capacity == df_line_split[n - 4]
                     used == df_line_split[n - 3]
                     available == df_line_split[n - 2]
                 IN IF ~(capacity.isdigit /\ used.isdigit /\ available.isdigit)
                    THEN DfLineLoop(persistent_volumes, df_lines, i + 1,
                                    claimName, namespace)
                    ELSE IF capacity.value = 0 THEN Raises("ZeroDivisionError")
                    ELSE DfLineLoop(
                            Put(persistent_volumes, claimName,
                                PersistentVolumeEntry(namespace, claimName,
                                                      capacity, used, available)),
                            df_lines, i + 1, claimName, namespace)

RaiseVisit == [raises |-> TRUE]

MountVisit(pod, volume, mount) ==
    [raises |-> FALSE, pod |-> pod, volume |-> volume, mount |-> mount]

\* the mounts the innermost loop visits for a volume and a container
VisitsOfContainer(pod, volume, container) ==
    IF "persistentVolumeClaim" \notin DOMAIN volume THEN <<>>
    ELSE IF "volumeMounts" \notin DOMAIN container THEN <<RaiseVisit>>
    ELSE [m \in 1..Len(container.volumeMounts) |->
            MountVisit(pod, volume, container.volumeMounts[m])]

\* the mounts the loops visit for a pod, in order; a subscript that raises
\* KeyError is a visit of its own
VisitsOfPod(pod) ==
    IF "spec" \notin DOMAIN pod THEN <<RaiseVisit>>
    ELSE IF "volumes" \notin DOMAIN pod.spec THEN <<>>
    ELSE Flatten([v \in 1..Len(pod.spec.volumes) |->
            Flatten([c \in 1..Len(pod.spec.containers) |->
                VisitsOfContainer(pod, pod.spec.volumes[v], pod.spec.containers[c])])])

\* kubectl(command=f"exec {pod}", namespace=..., execute=f"df {mountPath}", output_json=False)
\* (mount: the name of the mount the call is made for)
ExecCall(pod, mount) ==
    [command |-> "exec", name |-> pod.metadata.name,
     namespace |-> pod.metadata.namespace, execute |-> <<"df", mount.mountPath>>,
     mount |-> mount.name]

\* mutant: mounts_scanned is not consulted
SampledAgain(visit, mounts_scanned) == visit.mount.name = visit.volume.name

\* whether the visited mount is sampled: it is the volume's and not yet scanned
Sampled(visit, mounts_scanned) ==
    /\ visit.mount.name = visit.volume.name
    /\ visit.mount.name \notin Range(mounts_scanned)

\* the visits from visit i on; scan holds persistent_volumes, mounts_scanned and
\* the exec calls made
RECURSIVE ScanLoop(_, _, _, _, _)
ScanLoop(scan, visits, i, df_of, namespace) ==
    IF i > Len(visits) THEN [raised |-> FALSE, value |-> scan.persistent_volumes,
                             execs |-> scan.execs]
    ELSE LET visit == visits[i]
         IN IF visit.raises
            THEN [raised |-> TRUE, exception |-> "KeyError", execs |-> scan.execs]
            ELSE IF ~Sampled(visit, scan.mounts_scanned)
            THEN ScanLoop(scan, visits, i + 1, df_of, namespace)
            ELSE IF "metadata" \notin DOMAIN visit.pod
            THEN [raised |-> TRUE, exception |-> "KeyError", execs |-> scan.execs]
            ELSE LET call == ExecCall(visit.pod, visit.mount)
                     parsed == DfLineLoop(scan.persistent_volumes,
                                          df_of[visit.mount.mountPath], 1,
                                          visit.volume.persistentVolumeClaim.claimName,
                                          namespace)
                 IN IF parsed.raised
                    THEN [raised |-> TRUE, exception |-> parsed.exception,
                          execs |-> Append(scan.execs, call)]
                    ELSE ScanLoop([persistent_volumes |-> parsed.value,
                                   mounts_scanned |->
                                        Append(scan.mounts_scanned, visit.mount.name),
                                   execs |-> Append(scan.execs, call)],
                                  visits, i + 1, df_of, namespace)

\* namespace is the loop variable of the main block, read as a global
get_persistent_volumes(namespace_resources, df_of, namespace) ==
    IF ~HasItems(namespace_resources)
    THEN [raised |-> TRUE, exception |-> "KeyError", execs |-> <<>>]
    ELSE LET pods == RunningPods(namespace_resources)
         IN ScanLoop([persistent_volumes |-> EmptyMap, mounts_scanned |-> <<>>,
                      execs |-> <<>>],
                     Flatten([p \in 1..Len(pods) |-> VisitsOfPod(pods[p])]),
                     1, df_of, namespace)

\* ------------------------------------------------------------------------
\* Agent plugin: kubectl and the main block
\* ------------------------------------------------------------------------
KubectlPaths ==
    <<"/usr/local/bin/kubectl", "/usr/bin/kubectl", "/bin/kubectl", "/snap/bin/kubectl">>

\* the first path that is an executable file, as <<path>>; <<>> is None
get_kubectl_binary(executables) ==
    LET found == SelectSeq(KubectlPaths, LAMBDA path : path \in executables)
    IN IF found = <<>> THEN <<>> ELSE <<found[1]>>

\* run(command_line, shell=True).stdout: the answer to the command, or nothing
\* when the command line starts with 'None', which the shell does not find
ShellStdout(binary, answer) == IF binary = <<>> THEN <<>> ELSE answer

\* kubectl(): the output of the command if there is any, else an empty dict
kubectl(binary, answer) ==
    LET stdout == ShellStdout(binary, answer)
    IN IF stdout # <<>> THEN stdout[1] ELSE EmptyMap

\* get_namespaces(): the names of the listed namespaces, or an empty dict
get_namespaces(listing) ==
    IF HasDict(listing, "items")
    THEN [i \in 1..Len(listing.items) |-> listing.items[i].metadata.name]
    ELSE <<>>

\* Namespace(name): the class attributes are empty dicts
Namespace(name) ==
    [name |-> name, pods |-> EmptyMap, persistent_volumes |-> EmptyMap,
     deployments |-> EmptyMap, daemonsets |-> EmptyMap, replicasets |-> EmptyMap,
     cronjobs |-> EmptyMap]

\* Namespace.as_dict()
as_dict(self) ==
    [name |-> self.name, pods |-> self.pods,
     persistent_volumes |-> self.persistent_volumes, deployments |-> self.deployments,
     daemonsets |-> self.daemonsets, replicasets |-> self.replicasets,
     cronjobs |-> self.cronjobs]

\* mutant: the summaries go into the dicts of the class, which every instance shares
StoreShared(namespaces, namespace, summaries) ==
    [n \in DOMAIN namespaces |->
        [k \in DOMAIN namespaces[n] |->
            IF k = "name" THEN namespaces[n].name
            ELSE [r \in DOMAIN namespaces[n][k] \cup DOMAIN summaries[k] |->
                    IF r \in DOMAIN summaries[k] THEN summaries[k][r]
                    ELSE namespaces[n][k][r]]]]

\* namespaces[namespace].pods = ..., ... .cronjobs = ...: the six assignments
Store(namespaces, namespace, summaries) ==
    [namespaces EXCEPT ![namespace] =
        [name |-> @.name, pods |-> summaries.pods,
         persistent_volumes |-> summaries.persistent_volumes,
         deployments |-> summaries.deployments, daemonsets |-> summaries.daemonsets,
         replicasets |-> summaries.replicasets, cronjobs |-> summaries.cronjobs]]

Failed(exception, execs) == [raised |-> TRUE, exception |-> exception, execs |-> execs]

\* one turn of the loop of the main block: the six extractors in the order of
\* the assignments; the first assignment subscripts namespaces[namespace]
CollectNamespace(namespaces, namespace, namespace_resources, df_of) ==
    LET pods == get_pods(namespace_resources)
        volumes == get_persistent_volumes(namespace_resources, df_of, namespace)
        deployments == get_deployments(namespace_resources)
        daemonsets == get_daemonsets(namespace_resources)
        replicasets == get_replicasets(namespace_resources)
        cronjobs == get_cronjobs(namespace_resources)
    IN IF pods.raised THEN Failed(pods.exception, <<>>)
       ELSE IF namespace \notin DOMAIN namespaces THEN Failed("KeyError", <<>>)
       ELSE IF volumes.raised THEN Failed(volumes.exception, volumes.execs)
       ELSE IF deployments.raised THEN Failed(deployments.exception, volumes.execs)
       ELSE IF daemonsets.raised THEN Failed(daemonsets.exception, volumes.execs)
       ELSE IF replicasets.raised THEN Failed(replicasets.exception, volumes.execs)
       ELSE IF cronjobs.raised THEN Failed(cronjobs.exception, volumes.execs)
       ELSE [raised |-> FALSE, execs |-> volumes.execs,
             summaries |-> [pods |-> pods.value, persistent_volumes |-> volumes.value,
                            deployments |-> deployments.value,
                            daemonsets |-> daemonsets.value,
                            replicasets |-> replicasets.value,
                            cronjobs |-> cronjobs.value]]

Header == [text |-> "<<<kubernetes_namespaces:sep(59)>>>"]

\* the lines the main block prints: the header, then a dict per namespace
Printed(namespaces) ==
    <<Header>> \o [i \in 1..Len(Keys(namespaces)) |->
                    Repr(as_dict(namespaces[Keys(namespaces)[i]]))]

\* ------------------------------------------------------------------------
\* Inputs of the server-side plugin
\* ------------------------------------------------------------------------
MapOf(names, value) == [n \in names |-> value]

NamespaceRecord(name, pods, persistent_volumes, deployments, daemonsets, replicasets, cronjobs) ==
    [name |-> name, pods |-> pods, persistent_volumes |-> persistent_volumes,
     deployments |-> deployments, daemonsets |-> daemonsets,
     replicasets |-> replicasets, cronjobs |-> cronjobs]

HealthyPod ==
    [containers |-> [crashing |-> <<>>, running |-> <<"app">>,
                     waiting |-> <<>>, terminated |-> <<>>]]

CrashingPod ==
    [containers |-> [crashing |-> <<"app">>, running |-> <<>>,
                     waiting |-> <<"app">>, terminated |-> <<>>]]

DeploymentEntry(replicas, ready, unavailable) ==
    [replicas |-> replicas, ready_replicas |-> ready, unavailable_replicas |-> unavailable]

DaemonsetEntry(current, ready, unavailable, desired) ==
    [current_number_scheduled |-> current, number_ready |-> ready,
     number_unavailable |-> unavailable, desired_number_scheduled |-> desired]

ReplicasetEntry(replicas, ready, available) ==
    [replicas |-> replicas, ready_replicas |-> ready, available_replicas |-> available]

CronjobEntry(active) == [active |-> active]

\* df samples: capacity, used and available 1-KiB blocks
DfSamples ==
    {<<1000, 950, 50>>, <<1000, 800, 200>>, <<1000, 810, 190>>,
     <<1000, 900, 100>>, <<1000, 910, 90>>, <<100, 29, 71>>}

\* the non-empty summaries a namespace record of the model may hold for a kind
SummariesOf(kind, namespace) ==
    CASE kind = "pods" ->
            {MapOf({"web"}, HealthyPod), MapOf({"web"}, CrashingPod)}
      [] kind = "persistent_volumes" ->
            {MapOf({"web"}, PersistentVolumeEntry(namespace, "web",
                                Num(d[1]), Num(d[2]), Num(d[3]))) : d \in DfSamples}
      [] kind = "deployments" ->
            {MapOf({"web"}, DeploymentEntry(3, 3, 0)),
             MapOf({"web"}, DeploymentEntry(3, 2, 1)),
             MapOf({"pods"}, DeploymentEntry(3, 3, 0)),
             [n \in {"web", "pods"} |->
                IF n = "web" THEN DeploymentEntry(3, 3, 0) ELSE DeploymentEntry(2, 1, 1)]}
      [] kind = "daemonsets" ->
            {MapOf({"web"}, DaemonsetEntry(2, 2, 0, 2)),
             MapOf({"web"}, DaemonsetEntry(2, 1, 1, 2))}
      [] kind = "replicasets" ->
            {MapOf({"web"}, ReplicasetEntry(2, 2, 2)),
             MapOf({"web"}, ReplicasetEntry(2, 1, 1))}
      [] kind = "cronjobs" ->
            {MapOf({"web"}, CronjobEntry(a)) : a \in 0..MaxActive}

SummaryChoices(kind, namespace, present) ==
    IF kind \in present THEN SummariesOf(kind, namespace) ELSE {EmptyMap}

\* the records of a namespace in which the kinds of `present` are not empty
RecordsWith(name, present) ==
    {NamespaceRecord(name, p, v, d, s, r, c) :
        p \in SummaryChoices("pods", name, present),
        v \in SummaryChoices("persistent_volumes", name, present),
        d \in SummaryChoices("deployments", name, present),
        s \in SummaryChoices("daemonsets", name, present),
        r \in SummaryChoices("replicasets", name, present),
        c \in SummaryChoices("cronjobs", name, present)}

\* records with values of every kind, at most MaxKindsPresent kinds present
ValueRecords ==
    UNION {RecordsWith(name, present) :
            name \in NsNames,
            present \in {q \in SUBSET Kinds : Cardinality(q) <= MaxKindsPresent}}

\* records for the discovery rules: pods and deployments present or not
ShapeRecords ==
    {NamespaceRecord(name, p, EmptyMap, d, EmptyMap, EmptyMap, EmptyMap) :
        name \in NsNames,
        p \in {EmptyMap, MapOf({"web"}, HealthyPod)},
        d \in {EmptyMap, MapOf({"web"}, DeploymentEntry(3, 3, 0))}}

DistinctNames(records) ==
    \A i, j \in DOMAIN records : records[i].name = records[j].name => i = j

\* the collector prints one record per key of its namespaces dict
ShapeSections ==
    {s \in SeqsUpTo(ShapeRecords, Cardinality(NsNames)) : DistinctNames(s)}

\* a discovery rule: 'namespace' absent, empty or a name; the kinds set to True
MakeRule(namespace_option, kinds) ==
    [k \in kinds \cup (IF namespace_option = <<>> THEN {} ELSE {"namespace"}) |->
        IF k = "namespace" THEN namespace_option[1] ELSE TRUE]

RuleKinds == {"pods", "deployments"}

RuleSet ==
    {MakeRule(o, kinds) : o \in {<<>>, <<"">>, <<"prod">>}, kinds \in SUBSET RuleKinds}

\* check_default_parameters
DefaultCheckParams ==
    [percentage_persistent_volumes |-> <<80, 90>>, threshold_cronjob_count |-> <<2, 3>>]

CheckParamSet ==
    {[percentage_persistent_volumes |-> p, threshold_cronjob_count |-> c] :
        p \in {<<80, 90>>, <<90, 80>>}, c \in {<<2, 3>>, <<3, 2>>, <<1, 1>>}}

\* the lines of an agent output that holds the records
LinesOf(records) == [i \in DOMAIN records |-> <<Repr(records[i])>>]

ParseLines ==
    {<<>>, <<Garbage>>,
     <<Repr(NamespaceRecord("prod", MapOf({"web"}, HealthyPod), EmptyMap, EmptyMap,
                            EmptyMap, EmptyMap, EmptyMap))>>,
     <<Repr(NamespaceRecord("deployments", EmptyMap, EmptyMap,
                            MapOf({"web"}, DeploymentEntry(3, 3, 0)),
                            EmptyMap, EmptyMap, EmptyMap))>>}

\* the records of the well-formed lines of a table, in order
GoodRecords(table) ==
    LET good == SelectSeq(table, LAMBDA line : Len(line) > 0 /\ line[1].text = "dict")
    IN [i \in DOMAIN good |-> good[i][1].value]

ParseTables ==
    {t \in SeqsUpTo(ParseLines, MaxLines) : DistinctNames(GoodRecords(t))}

\* ------------------------------------------------------------------------
\* Inputs of the agent plugin: what kubectl finds in the cluster
\* ------------------------------------------------------------------------
Running == [running |-> [startedAt |-> "2024-01-01T00:00:00Z"]]

CrashLoop == [waiting |-> [reason |-> "CrashLoopBackOff"]]

\* a running pod that mounts the claim 'web' as volume 'data' under /data
ClaimPod(name, namespace) ==
    [kind |-> "Pod",
     metadata |-> [name |-> name, namespace |-> namespace],
     status |-> [phase |-> "Running",
                 containerStatuses |-> <<[name |-> "app", state |-> Running]>>],
     spec |-> [volumes |-> <<[name |-> "data",
                              persistentVolumeClaim |-> [claimName |-> "web"]]>>,
               containers |-> <<[name |-> "app",
                                 volumeMounts |-> <<[name |-> "data",
                                                     mountPath |-> "/data"]>>]>>]]

\* a pod without volumes whose container is in a crash loop
CrashLoopPod(name, namespace) ==
    [kind |-> "Pod",
     metadata |-> [name |-> name, namespace |-> namespace],
     status |-> [phase |-> "Running",
                 containerStatuses |-> <<[name |-> "app", state |-> CrashLoop]>>],
     spec |-> [containers |-> <<[name |-> "app", volumeMounts |-> <<>>]>>]]

RawDeployment(name, namespace) ==
    [kind |-> "Deployment",
     metadata |-> [name |-> name, namespace |-> namespace],
     status |-> [replicas |-> 3, readyReplicas |-> 2, unavailableReplicas |-> 1]]

\* the replicaset of a deployment
OwnedReplicaSet(name, namespace) ==
    [kind |-> "ReplicaSet",
     metadata |-> [name |-> name, namespace |-> namespace,
                   ownerReferences |-> <<[kind |-> "Deployment", name |-> "web"]>>],
     status |-> [replicas |-> 3, readyReplicas |-> 2, availableReplicas |-> 2]]

LoneReplicaSet(name, namespace) ==
    [kind |-> "ReplicaSet",
     metadata |-> [name |-> name, namespace |-> namespace],
     status |-> [replicas |-> 2, readyReplicas |-> 2, availableReplicas |-> 2]]

RawDaemonSet(name, namespace) ==
    [kind |-> "DaemonSet",
     metadata |-> [name |-> name, namespace |-> namespace],
     status |-> [currentNumberScheduled |-> 2, desiredNumberScheduled |-> 2,
                 numberReady |-> 2]]

RawCronJob(name, namespace) ==
    [kind |-> "CronJob",
     metadata |-> [name |-> name, namespace |-> namespace],
     status |-> [active |-> <<[kind |-> "Job", name |-> "web-1"]>>]]

\* what 'kubectl get all' lists in a namespace
Dumps(namespace) ==
    {<<>>,
     <<ClaimPod("web", namespace), RawDeployment("web", namespace),
       OwnedReplicaSet("web", namespace)>>,
     <<CrashLoopPod("pods", namespace), RawCronJob("web", namespace),
       RawDaemonSet("web", namespace), LoneReplicaSet("web", namespace)>>}

\* a cluster: its namespaces and what each holds
ClusterStates ==
    {[n \in S |-> IF n = "prod" THEN p ELSE d] :
        S \in SUBSET NsNames, p \in Dumps("prod"), d \in Dumps("deployments")}

\* the JSON of 'kubectl get namespace' and of 'kubectl get all --namespace n'
NamespaceList(c) ==
    [kind |-> "List",
     items |-> [i \in 1..Len(Keys(c)) |->
                    [kind |-> "Namespace", metadata |-> [name |-> Keys(c)[i]]]]]

ResourceList(c, namespace) ==
    [kind |-> "List", items |-> IF namespace \in DOMAIN c THEN c[namespace] ELSE <<>>]

MountPaths == {"/data"}

\* the output of df in a pod: nothing, or the header and the line of the mount
DfOutputs ==
    {<<>>,
     <<<<Word("Filesystem"), Word("1K-blocks"), Word("Used"), Word("Available"),
         Word("Use%"), Word("Mounted"), Word("on")>>,
       <<Word("/dev/sdb"), Num(1000), Num(950), Num(50), Word("95%"), Word("/data")>>>>}

\* the files that are executable kubectl binaries on the node
ExecutableSets ==
    {{}, {"/usr/bin/kubectl"}, {"/usr/local/bin/kubectl", "/snap/bin/kubectl"}}

MaxChanges == 1

\* ------------------------------------------------------------------------
\* Inputs of the extractors: the items of one namespace, well-formed or not
\* ------------------------------------------------------------------------
MaxItems == 2

\* a running pod that mounts a claim as the volume of the given name
MountingPod(name, volume, claimName, mountPath) ==
    [kind |-> "Pod",
     metadata |-> [name |-> name, namespace |-> "prod"],
     status |-> [phase |-> "Running",
                 containerStatuses |-> <<[name |-> "app", state |-> Running]>>],
     spec |-> [volumes |-> <<[name |-> volume,
                              persistentVolumeClaim |-> [claimName |-> claimName]]>>,
               containers |-> <<[name |-> "app",
                                 volumeMounts |-> <<[name |-> volume,
                                                     mountPath |-> mountPath]>>]>>]]

\* a pending pod whose container waits to be created
CreatingPod(name) ==
    [kind |-> "Pod",
     metadata |-> [name |-> name, namespace |-> "prod"],
     status |-> [phase |-> "Pending",
                 containerStatuses |->
                    <<[name |-> "app",
                       state |-> [waiting |-> [reason |-> "ContainerCreating"]]]>>],
     spec |-> [containers |-> <<[name |-> "app", volumeMounts |-> <<>>]>>]]

\* pods that lack a field
NoMetadataPod ==
    [kind |-> "Pod",
     status |-> [phase |-> "Pending",
                 containerStatuses |-> <<[name |-> "app", state |-> Running]>>],
     spec |-> [containers |-> <<[name |-> "app", volumeMounts |-> <<>>]>>]]

NoSpecPod ==
    [kind |-> "Pod",
     metadata |-> [name |-> "pods", namespace |-> "prod"],
     status |-> [phase |-> "Running"]]

NoMountsPod ==
    [kind |-> "Pod",
     metadata |-> [name |-> "pods", namespace |-> "prod"],
     status |-> [phase |-> "Running"],
     spec |-> [volumes |-> <<[name |-> "data",
                              persistentVolumeClaim |-> [claimName |-> "web"]]>>,
               containers |-> <<[name |-> "app"]>>]]

NoStatusPod ==
    [kind |-> "Pod", metadata |-> [name |-> "pods", namespace |-> "prod"]]

PodItems ==
    {MountingPod("web", "data", "web", "/data"),
     MountingPod("pods", "data", "web", "/data"),
     MountingPod("pods", "data", "pods", "/cache"),
     MountingPod("pods", "cache", "pods", "/cache"),
     CrashLoopPod("web", "prod"), CreatingPod("pods"),
     NoMetadataPod, NoSpecPod, NoMountsPod, NoStatusPod}

\* a resource of a kind with the given status, with or without a name
Resource(kind, name, status) ==
    [kind |-> kind, metadata |-> [name |-> name, namespace |-> "prod"], status |-> status]

DeploymentItems ==
    {RawDeployment("web", "prod"),
     Resource("Deployment", "pods", [replicas |-> 3, readyReplicas |-> 0]),
     Resource("Deployment", "pods", [readyReplicas |-> 1]),
     Resource("Deployment", "pods", [replicas |-> 3]),
     [kind |-> "Deployment", status |-> [replicas |-> 3, readyReplicas |-> 3]]}

DaemonsetItems ==
    {RawDaemonSet("web", "prod"),
     Resource("DaemonSet", "pods", [numberUnavailable |-> 1, desiredNumberScheduled |-> 1]),
     Resource("DaemonSet", "pods", [currentNumberScheduled |-> 0, numberReady |-> 0,
                                    desiredNumberScheduled |-> 0]),
     [kind |-> "DaemonSet", metadata |-> [name |-> "pods", namespace |-> "prod"]]}

\* a replicaset with the given owner references
Owned(kind, name, owners, status) ==
    [kind |-> kind,
     metadata |-> [name |-> name, namespace |-> "prod", ownerReferences |-> owners],
     status |-> status]

ReplicasetItems ==
    {OwnedReplicaSet("web", "prod"), LoneReplicaSet("web", "prod"),
     Owned("ReplicaSet", "pods", <<[kind |-> "Rollout", name |-> "web"]>>,
           [replicas |-> 2, readyReplicas |-> 1, availableReplicas |-> 1]),
     Owned("ReplicaSet", "pods", <<[kind |-> "Deployment", name |-> "web"],
                                   [kind |-> "Rollout", name |-> "web"]>>,
           [replicas |-> 2, readyReplicas |-> 2, availableReplicas |-> 2]),
     Owned("ReplicaSet", "pods", <<>>, [replicas |-> 1, availableReplicas |-> 0]),
     [kind |-> "ReplicaSet", status |-> [replicas |-> 1, readyReplicas |-> 1]]}

CronjobItems ==
    {RawCronJob("web", "prod"), Resource("CronJob", "pods", [lastScheduleTime |-> "t"]),
     [kind |-> "CronJob", status |-> [active |-> <<>>]]}

ItemPool == PodItems \cup DeploymentItems \cup DaemonsetItems \cup ReplicasetItems \cup CronjobItems

\* kind and name of an item; items without a name are their own
Identity(x) ==
    <<x.kind, IF "metadata" \in DOMAIN x THEN Get(x.metadata, "name", "") ELSE "">>

\* the dumps of a namespace: within a kind no two items have the same name
ItemLists ==
    {items \in SeqsUpTo(ItemPool, MaxItems) :
        \A i, j \in DOMAIN items : i < j => Identity(items[i]) # Identity(items[j])}

ExtractPaths == {"/data", "/cache"}

DfHeader ==
    <<Word("Filesystem"), Word("1K-blocks"), Word("Used"), Word("Available"),
      Word("Use%"), Word("Mounted"), Word("on")>>

DfLine(filesystem, capacity, used, available, mountPath) ==
    <<Word(filesystem), capacity, used, available, Word("use%"), Word(mountPath)>>

\* what df prints for /data: nothing; a header and a line; a line of five fields
\* after a long device name; a line of three fields; a line without numbers;
\* a file system of size 0; a file system that reports more used than its size
DfTexts ==
    {<<>>,
     <<DfHeader, DfLine("/dev/sdb", Num(1000), Num(950), Num(50), "/data")>>,
     <<DfHeader, <<Word("/dev/mapper/a-long-device-name")>>,
       Tail(DfLine("", Num(1000), Num(800), Num(200), "/data"))>>,
     <<DfHeader, <<Word("df:"), Word("/data:"), Word("stale")>>>>,
     <<DfHeader, DfLine("tmpfs", Word("-"), Word("-"), Word("-"), "/data")>>,
     <<DfHeader, DfLine("proc", Num(0), Num(0), Num(0), "/data")>>,
     <<DfHeader, DfLine("/dev/sdb", Num(100), Num(950), Num(50), "/data")>>}

\* the df outputs of the two mount paths
DfAnswers ==
    {[path \in ExtractPaths |-> IF path = "/data" THEN d ELSE c] :
        d \in DfTexts,
        c \in {<<>>, <<DfHeader, DfLine("/dev/sdc", Num(1000), Num(800), Num(200), "/cache")>>}}

\* ------------------------------------------------------------------------
\* State
\* ------------------------------------------------------------------------
VARIABLES
    string_table,       \* the section's lines as Checkmk hands them to the parse function
    section,            \* what parse_kubernetes_namespaces returned
    discovery_params,   \* params.get('kubernetes_namespaces'): the list of discovery rules
    check_params,       \* the parameters of the check function
    services,           \* the items discover_kubernetes_namespaces yielded
    item,               \* the item of the check function's call
    results,            \* what check_kubernetes_namespaces yielded
    pc                  \* the next call of the server-side plugin

VARIABLES
    executables,        \* the executable files of the node
    cluster,            \* the cluster as kubectl would find it now
    changes,            \* how often the cluster has changed during the run
    agent_pc,           \* where the main block of the agent plugin is
    KUBECTL,            \* the global KUBECTL: <<path>>, or <<>> for None
    namespaces,         \* the global dict of Namespace objects
    todo,               \* the namespaces the loop of the main block has still to visit
    stdout,             \* the lines printed
    exit_status,        \* "running", then "ok" or the exception of the traceback
    calls,              \* the kubectl command lines run, in order
    listed,             \* the names each get_namespaces() call returned, in order
    fetched,            \* per namespace, the items get_namespace_resources returned
    extracted           \* per namespace, the summaries the six extractors returned

VARIABLES
    dump,               \* the items of the namespace an extractor is called with
    outcome,            \* the extractor called, the df outputs it met and what it returned
    extract_pc          \* whether an extractor has been called

server_vars ==
    <<string_table, section, discovery_params, check_params, services, item, results, pc>>

agent_vars ==
    <<executables, cluster, changes, agent_pc, KUBECTL, namespaces, todo, stdout,
      exit_status, calls, listed, fetched, extracted>>

extract_vars == <<dump, outcome, extract_pc>>

vars == <<server_vars, agent_vars, extract_vars>>

\* no extractor is called on its own
ExtractIdle ==
    /\ dump = <<>>
    /\ outcome = EmptyMap
    /\ extract_pc = "idle"

\* the agent plugin is not part of the server-side run
AgentIdle ==
    /\ executables = {}
    /\ cluster = EmptyMap
    /\ changes = 0
    /\ agent_pc = "idle"
    /\ KUBECTL = <<>>
    /\ namespaces = EmptyMap
    /\ todo = <<>>
    /\ stdout = <<>>
    /\ exit_status = "idle"
    /\ calls = <<>>
    /\ listed = <<>>
    /\ fetched = EmptyMap
    /\ extracted = EmptyMap

ServerIdle ==
    /\ string_table = <<>>
    /\ section = <<>>
    /\ discovery_params = <<>>
    /\ check_params = DefaultCheckParams
    /\ services = <<>>
    /\ item = <<>>
    /\ results = <<>>
    /\ pc = "idle"

\* ------------------------------------------------------------------------
\* The server-side plugin on one agent output
\* ------------------------------------------------------------------------
InitValues ==
    /\ \E r \in ValueRecords : string_table = LinesOf(<<r>>)
    /\ discovery_params = <<>>
    /\ check_params \in CheckParamSet

InitRules ==
    /\ \E s \in ShapeSections : string_table = LinesOf(s)
    /\ discovery_params \in SeqsUpTo(RuleSet, MaxRules)
    /\ check_params = DefaultCheckParams

InitLines ==
    /\ string_table \in ParseTables
    /\ discovery_params = <<>>
    /\ check_params = DefaultCheckParams

Init ==
    /\ InitValues \/ InitRules \/ InitLines
    /\ section = <<>>
    /\ services = <<>>
    /\ item = <<>>
    /\ results = <<>>
    /\ pc = "parse"
    /\ AgentIdle
    /\ ExtractIdle

Parse ==
    /\ pc = "parse"
    /\ section' = parse_kubernetes_namespaces(string_table)
    /\ pc' = "discover"
    /\ UNCHANGED <<string_table, discovery_params, check_params, services, item, results, agent_vars, extract_vars>>

Discover ==
    /\ pc = "discover"
    /\ services' = discover_kubernetes_namespaces(discovery_params, section)
    /\ pc' = "check"
    /\ UNCHANGED <<string_table, section, discovery_params, check_params, item, results, agent_vars, extract_vars>>

\* Checkmk calls the check function for an item discovery has yielded
Check ==
    /\ pc = "check"
    /\ \E it \in Range(services) :
        /\ item' = it
        /\ results' = check_kubernetes_namespaces(it, check_params, section)
    /\ pc' = "done"
    /\ UNCHANGED <<string_table, section, discovery_params, check_params, services, agent_vars, extract_vars>>

Next == Parse \/ Discover \/ Check

Spec == Init /\ [][Next]_vars

\* ------------------------------------------------------------------------
\* The server-side plugin over several agent outputs: the items are
\* discovered once and checked against every later output
\* ------------------------------------------------------------------------
InitLater ==
    /\ \E r \in ValueRecords : string_table = LinesOf(<<r>>)
    /\ discovery_params = <<>>
    /\ check_params = DefaultCheckParams
    /\ section = <<>>
    /\ services = <<>>
    /\ item = <<>>
    /\ results = <<>>
    /\ pc = "parse"
    /\ AgentIdle
    /\ ExtractIdle

\* the summary map after the resource `gone` was deleted and the resources of
\* `new` were created with the same counters
Replaced(map, gone, new) ==
    [n \in (DOMAIN map \ {gone}) \cup new |->
        IF n \in DOMAIN map \ {gone} THEN map[n] ELSE map[gone]]

\* the records a later run of the collector may print for the namespace of
\* `record`: a resource is gone, another one may have appeared
LaterRecords(record) ==
    UNION {{[record EXCEPT ![kind] = Replaced(@, gone, new)] :
                gone \in DOMAIN record[kind], new \in SUBSET (ResNames \ DOMAIN record[kind])} :
           kind \in Kinds \ {"pods"}}

\* the next agent output arrives and is parsed; the services stay as discovered
LaterOutput ==
    /\ pc = "check"
    /\ Len(section) = 1
    /\ \E r \in LaterRecords(section[1]) :
        /\ string_table' = LinesOf(<<r>>)
        /\ section' = parse_kubernetes_namespaces(LinesOf(<<r>>))
    /\ UNCHANGED <<discovery_params, check_params, services, item, results, pc,
                   agent_vars, extract_vars>>

NextLater == Parse \/ Discover \/ LaterOutput \/ Check

SpecLater == InitLater /\ [][NextLater]_vars

\* ------------------------------------------------------------------------
\* One run of the agent plugin
\* ------------------------------------------------------------------------
InitAgent ==
    /\ ServerIdle
    /\ ExtractIdle
    /\ executables \in ExecutableSets
    /\ cluster \in ClusterStates
    /\ changes = 0
    /\ agent_pc = "start"
    /\ KUBECTL = <<>>
    /\ namespaces = EmptyMap
    /\ todo = <<>>
    /\ stdout = <<>>
    /\ exit_status = "running"
    /\ calls = <<>>
    /\ listed = <<>>
    /\ fetched = EmptyMap
    /\ extracted = EmptyMap

Call(command, namespace, answer) ==
    [command |-> command, namespace |-> namespace, name |-> "", execute |-> <<>>,
     answered |-> answer # <<>>]

\* the exec calls of get_persistent_volumes as entries of the log
ExecCalls(execs, binary, df_of) ==
    [i \in DOMAIN execs |->
        [command |-> "exec", namespace |-> execs[i].namespace, name |-> execs[i].name,
         execute |-> execs[i].execute,
         answered |-> ShellStdout(binary, df_of[execs[i].execute[2]]) # <<>>]]

\* configure_plugin() and KUBECTL = get_kubectl_binary()
Start ==
    /\ agent_pc = "start"
    /\ KUBECTL' = get_kubectl_binary(executables)
    /\ agent_pc' = "list1"
    /\ UNCHANGED <<executables, cluster, changes, namespaces, todo, stdout, exit_status,
                   calls, listed, fetched, extracted, server_vars,
                   extract_vars>>

\* what the API server answers to a command: nothing, or the JSON
Answers(json) == {<<>>, <<json>>}

\* namespaces = {x: Namespace(x) for x in get_namespaces()}
ListFirst ==
    /\ agent_pc = "list1"
    /\ \E answer \in Answers(NamespaceList(cluster)) :
        LET names == get_namespaces(kubectl(KUBECTL, answer))
        IN /\ namespaces' = [n \in Range(names) |-> Namespace(n)]
           /\ listed' = Append(listed, names)
           /\ calls' = Append(calls, Call("get namespace", "", ShellStdout(KUBECTL, answer)))
    /\ agent_pc' = "list2"
    /\ UNCHANGED <<executables, cluster, changes, KUBECTL, todo, stdout, exit_status,
                   fetched, extracted, server_vars,
                   extract_vars>>

\* for namespace in get_namespaces():
ListSecond ==
    /\ agent_pc = "list2"
    /\ \E answer \in Answers(NamespaceList(cluster)) :
        LET names == get_namespaces(kubectl(KUBECTL, answer))
        IN /\ todo' = names
           /\ listed' = Append(listed, names)
           /\ calls' = Append(calls, Call("get namespace", "", ShellStdout(KUBECTL, answer)))
    /\ agent_pc' = "collect"
    /\ UNCHANGED <<executables, cluster, changes, KUBECTL, namespaces, stdout,
                   exit_status, fetched, extracted, server_vars,
                   extract_vars>>

\* one turn of the loop: get_namespace_resources(namespace) and the six extractors;
\* an exception ends the run with a traceback, nothing printed
Collect ==
    /\ agent_pc = "collect"
    /\ todo # <<>>
    /\ \E answer \in Answers(ResourceList(cluster, Head(todo))), df \in [MountPaths -> DfOutputs] :
        LET namespace == Head(todo)
            df_of == [path \in MountPaths |-> ShellStdout(KUBECTL, df[path])]
            namespace_resources == kubectl(KUBECTL, answer)
            turn == CollectNamespace(namespaces, namespace, namespace_resources, df_of)
        IN /\ calls' = (Append(calls, Call("get all", namespace,
                                           ShellStdout(KUBECTL, answer)))
                            \o ExecCalls(turn.execs, KUBECTL, df))
           /\ fetched' = Put(fetched, namespace, Get(namespace_resources, "items", <<>>))
           /\ IF turn.raised
              THEN /\ exit_status' = turn.exception
                   /\ agent_pc' = "done"
                   /\ UNCHANGED <<namespaces, todo, extracted>>
              ELSE /\ namespaces' = Store(namespaces, namespace, turn.summaries)
                   /\ extracted' = Put(extracted, namespace, turn.summaries)
                   /\ todo' = Tail(todo)
                   /\ UNCHANGED <<exit_status, agent_pc>>
    /\ UNCHANGED <<executables, cluster, changes, KUBECTL, stdout, listed, server_vars,
                   extract_vars>>

\* print the header and the dict of every namespace
PrintAll ==
    /\ agent_pc = "collect"
    /\ todo = <<>>
    /\ stdout' = Printed(namespaces)
    /\ exit_status' = "ok"
    /\ agent_pc' = "done"
    /\ UNCHANGED <<executables, cluster, changes, KUBECTL, namespaces, todo, calls,
                   listed, fetched, extracted, server_vars,
                   extract_vars>>

\* namespaces and resources come and go while the plugin runs
ClusterChange ==
    /\ agent_pc \in {"list1", "list2", "collect"}
    /\ changes < MaxChanges
    /\ cluster' \in ClusterStates \ {cluster}
    /\ changes' = changes + 1
    /\ UNCHANGED <<executables, agent_pc, KUBECTL, namespaces, todo, stdout, exit_status,
                   calls, listed, fetched, extracted, server_vars,
                   extract_vars>>

NextAgent == Start \/ ListFirst \/ ListSecond \/ Collect \/ PrintAll \/ ClusterChange

SpecAgent == InitAgent /\ [][NextAgent]_vars

\* ------------------------------------------------------------------------
\* One call of an extractor on the items of a namespace
\* ------------------------------------------------------------------------
InitExtract ==
    /\ ServerIdle
    /\ AgentIdle
    /\ dump \in ItemLists
    /\ outcome = EmptyMap
    /\ extract_pc = "call"

\* the JSON of 'kubectl get all' the extractors are called with
DumpResources == [kind |-> "List", items |-> dump]

\* the call returns or raises
Return(function, df_of, result) ==
    /\ outcome' = [function |-> function, df_of |-> df_of, result |-> result]
    /\ extract_pc' = "returned"
    /\ UNCHANGED <<dump, server_vars, agent_vars>>

GetPods ==
    /\ extract_pc = "call"
    /\ Return("get_pods", EmptyMap, get_pods(DumpResources))

GetPersistentVolumes ==
    /\ extract_pc = "call"
    /\ \E df_of \in DfAnswers :
        Return("get_persistent_volumes", df_of,
               get_persistent_volumes(DumpResources, df_of, "prod"))

GetDeployments ==
    /\ extract_pc = "call"
    /\ Return("get_deployments", EmptyMap, get_deployments(DumpResources))

GetDaemonsets ==
    /\ extract_pc = "call"
    /\ Return("get_daemonsets", EmptyMap, get_daemonsets(DumpResources))

GetReplicasets ==
    /\ extract_pc = "call"
    /\ Return("get_replicasets", EmptyMap, get_replicasets(DumpResources))

GetCronjobs ==
    /\ extract_pc = "call"
    /\ Return("get_cronjobs", EmptyMap, get_cronjobs(DumpResources))

NextExtract ==
    \/ GetPods
    \/ GetPersistentVolumes
    \/ GetDeployments
    \/ GetDaemonsets
    \/ GetReplicasets
    \/ GetCronjobs

SpecExtract == InitExtract /\ [][NextExtract]_vars

\* ------------------------------------------------------------------------
\* Claims
\* ------------------------------------------------------------------------
Discovered == pc \in {"check", "done"}

Checked == pc = "done"

\* the items yielded for a namespace and a kind
ItemsFor(namespace_name, kind) ==
    {it \in Range(services) : Split(it)[1] = namespace_name /\ Split(it)[2] = kind}

\* a rule names the namespace / names no namespace (the key absent or empty)
Names(rule, namespace_name) ==
    "namespace" \in DOMAIN rule /\ rule.namespace = namespace_name

IsDefaultRule(rule) == "namespace" \notin DOMAIN rule \/ rule.namespace = ""

SetsTrue(rule, kind) == kind \in DOMAIN rule /\ rule[kind] = TRUE

\* C1: with a non-empty rule list, a kind that is present in namespace N is
\* discovered for N exactly when a rule naming N sets it true, if some rule names
\* N (default rules then never contribute), and otherwise exactly when a rule
\* without a namespace sets it true.
C1_RuleResolution ==
    (Discovered /\ discovery_params # <<>>) =>
        \A i \in DOMAIN section : \A kind \in Kinds :
            LET rec == section[i]
                rules == Range(discovery_params)
                named == \E r \in rules : Names(r, rec.name)
                byName == \E r \in rules : Names(r, rec.name) /\ SetsTrue(r, kind)
                byDefault == \E r \in rules : IsDefaultRule(r) /\ SetsTrue(r, kind)
            IN (ItemsFor(rec.name, kind) # {}) <=>
                    (Truthy(rec[kind]) /\ IF named THEN byName ELSE byDefault)

\* C1's example: the only rule is {namespace: prod, pods: True}; the namespace
\* 'deployments' has pods and gets no item, while 'prod' gets its pods item
C1_Witness ==
    /\ Discovered
    /\ discovery_params = <<MakeRule(<<"prod">>, {"pods"})>>
    /\ \E i, j \in DOMAIN section :
        /\ section[i].name = "deployments" /\ Truthy(section[i].pods)
        /\ section[j].name = "prod" /\ Truthy(section[j].pods)
    /\ ItemsFor("deployments", "pods") = {}
    /\ ItemsFor("prod", "pods") # {}

\* the number of items full discovery is to yield for a record
RECURSIVE SumOver(_, _)
SumOver(f, S) ==
    IF S = {} THEN 0
    ELSE LET x == CHOOSE y \in S : TRUE IN f[x] + SumOver(f, S \ {x})

ExpectedCount(rec) ==
    (IF Truthy(rec.pods) THEN 1 ELSE 0)
        + SumOver([k \in Kinds \ {"pods"} |-> Cardinality(DOMAIN rec[k])], Kinds \ {"pods"})

\* C2: without discovery rules, every record with a name gets one item
\* 'namespace / pods' exactly when its pod summary is not empty, one item
\* 'namespace / kind / resource' per key of every other kind's summary, and
\* nothing else is yielded.
C2_FullDiscovery ==
    (Discovered /\ discovery_params = <<>>) =>
        /\ \A i \in DOMAIN section :
            LET rec == section[i]
            IN rec.name # "" =>
                /\ Count(services, <<rec.name, SEPARATOR, "pods">>)
                        = (IF Truthy(rec.pods) THEN 1 ELSE 0)
                /\ \A kind \in Kinds \ {"pods"} : \A n \in Range(NameOrder) :
                        Count(services, <<rec.name, SEPARATOR, kind, SEPARATOR, n>>)
                            = (IF n \in DOMAIN rec[kind] THEN 1 ELSE 0)
        /\ Len(services)
            = SumOver([i \in DOMAIN section |->
                        IF section[i].name # "" THEN ExpectedCount(section[i]) ELSE 0],
                      DOMAIN section)

\* full discovery of a namespace without pods and with two deployments
C2_Witness ==
    /\ Discovered
    /\ discovery_params = <<>>
    /\ Len(section) = 1
    /\ ~Truthy(section[1].pods)
    /\ DOMAIN section[1].deployments = {"web", "pods"}
    /\ Len(services) = 2

Results == SelectSeq(results, LAMBDA y : y.type = "Result")

\* C3: the check of a discovered item yields exactly one Result, whatever the
\* namespace and the resource are called.
C3_ExactlyOneResult == Checked => Len(Results) = 1

\* C4: the parsed section holds the record of every well-formed line, in the
\* order of arrival; a malformed line removes only itself.
C4_LinesIndependent == pc # "parse" => section = GoodRecords(string_table)

\* the parts of the checked item, and the record and summary entry it addresses
ItemParts == Split(item)

NamedItem(kind) == Checked /\ Len(ItemParts) = 3 /\ ItemParts[2] = kind

ItemRecord == SelectSeq(section, LAMBDA x : x.name = ItemParts[1])[1]

ItemEntry == ItemRecord[ItemParts[2]][ItemParts[3]]

ResultsOf(fmt) == SelectSeq(Results, LAMBDA y : y.summary.fmt = fmt)

\* CRIT at or above the critical threshold, else WARN at or above the warning one
AtLeastState(value, warning, critical) ==
    IF value >= critical THEN CRIT ELSE IF value >= warning THEN WARN ELSE OK

\* CRIT above the critical threshold, else WARN above the warning one
AboveState(value, warning, critical) ==
    IF value > critical THEN CRIT ELSE IF value > warning THEN WARN ELSE OK

\* C5: the check of a cronjob item yields the cronjob's Result 'active: a' once,
\* with state CRIT when a >= crit, else WARN when a >= warn, else OK; with the
\* thresholds (2, 3): 1 is OK, 2 is WARN, 3 is CRIT.
C5_CronjobState ==
    NamedItem("cronjobs") =>
        LET a == ItemEntry.active
            warning == check_params.threshold_cronjob_count[1]
            critical == check_params.threshold_cronjob_count[2]
            yielded == ResultsOf("active: {}")
        IN /\ Len(yielded) = 1
           /\ yielded[1].summary.args = <<a>>
           /\ yielded[1].state = AtLeastState(a, warning, critical)
           /\ (warning = 2 /\ critical = 3) =>
                /\ a = 1 => yielded[1].state = OK
                /\ a = 2 => yielded[1].state = WARN
                /\ a = 3 => yielded[1].state = CRIT

\* a cronjob with 3 active jobs against (3, 2): both thresholds are reached and
\* the state is CRIT
C5_Witness ==
    /\ NamedItem("cronjobs")
    /\ ItemEntry.active = 3
    /\ check_params.threshold_cronjob_count = <<3, 2>>
    /\ ResultsOf("active: {}")[1].state = CRIT

PvSummary == "used: {} capacity: {} percentage: {} %"

\* C6: the check of a persistent-volume item yields the volume's Result once,
\* with state CRIT when percentage > crit, else WARN when percentage > warn, else
\* OK; the volume sampled with 1000 blocks of which 950 are used has percentage
\* 95 and is CRIT under the default thresholds (80, 90).
C6_PersistentVolumeState ==
    NamedItem("persistent_volumes") =>
        LET p == ItemEntry.percentage
            warning == check_params.percentage_persistent_volumes[1]
            critical == check_params.percentage_persistent_volumes[2]
            yielded == ResultsOf(PvSummary)
        IN /\ Len(yielded) = 1
           /\ yielded[1].state = AboveState(p, warning, critical)
           /\ (ItemEntry.capacity = 1000 * 1024 /\ ItemEntry.used = 950 * 1024) =>
                /\ p = 95
                /\ check_params = DefaultCheckParams => yielded[1].state = CRIT

\* a volume at 80 percent against the thresholds (80, 90): not above, so OK
C6_Witness ==
    /\ NamedItem("persistent_volumes")
    /\ ItemEntry.percentage = 80
    /\ check_params.percentage_persistent_volumes = <<80, 90>>
    /\ ResultsOf(PvSummary)[1].state = OK

\* the sampled volume of the example, CRIT under the defaults
C6_WitnessExample ==
    /\ NamedItem("persistent_volumes")
    /\ ItemEntry.capacity = 1000 * 1024
    /\ ItemEntry.used = 950 * 1024
    /\ check_params = DefaultCheckParams
    /\ ResultsOf(PvSummary)[1].state = CRIT

\* C7: the check of a deployment item ends with the three deployment metrics
\* and one Result built from the named deployment's counters: summary
\* 'replicas: R, ready: Y, unavailable: U', state CRIT exactly when R # Y, the
\* same metrics in both states; (3, 3, 0) is OK, a deployment with fewer ready
\* replicas is CRIT.
C7_DeploymentState ==
    NamedItem("deployments") =>
        LET d == ItemEntry
            n == Len(results)
            yielded == ResultsOf("replicas: {}, ready: {}, unavailable: {}")
        IN /\ Len(yielded) = 1
           /\ n >= 4
           /\ SubSeq(results, n - 3, n) =
                <<Metric("deployments_replicas", d.replicas),
                  Metric("deployments_ready_replicas", d.ready_replicas),
                  Metric("deployments_unavailable_replicas", d.unavailable_replicas),
                  yielded[1]>>
           /\ yielded[1].summary.args =
                <<d.replicas, d.ready_replicas, d.unavailable_replicas>>
           /\ yielded[1].state = CRIT <=> d.replicas # d.ready_replicas
           /\ yielded[1].state = OK <=> d.replicas = d.ready_replicas
           /\ (d.replicas = 3 /\ d.ready_replicas = 3 /\ d.unavailable_replicas = 0) =>
                yielded[1] = Result(OK, Text("replicas: {}, ready: {}, unavailable: {}",
                                             <<3, 3, 0>>))

\* the deployment 'pods' of a namespace that also holds the deployment 'web':
\* 2 replicas, 1 ready, CRIT
C7_Witness ==
    /\ NamedItem("deployments")
    /\ ItemParts[3] = "pods"
    /\ DOMAIN ItemRecord.deployments = {"web", "pods"}
    /\ ItemEntry.ready_replicas = 1
    /\ results[Len(results)].state = CRIT

\* ------------------------------------------------------------------------
\* Claims about a run of the agent plugin
\* ------------------------------------------------------------------------
Finished == agent_pc = "done"

\* every kubectl command of the run produced output
AllAnswered == \A i \in DOMAIN calls : calls[i].answered

\* the names the get_namespaces() calls of the run returned
ListedNames == UNION {Range(listed[i]) : i \in DOMAIN listed}

\* C8: a run ends without an unhandled error and prints, after the header,
\* exactly one record line for each namespace it listed, and each record holds
\* the summaries extracted for that namespace in this run. Stated for the runs
\* in which kubectl was found and every command was answered.
C8_EmitsEveryNamespace ==
    (Finished /\ KUBECTL # <<>> /\ AllAnswered) =>
        /\ exit_status = "ok"
        /\ Len(stdout) = 1 + Cardinality(ListedNames)
        /\ stdout[1] = Header
        /\ \A n \in ListedNames :
            /\ n \in DOMAIN extracted
            /\ \E i \in 2..Len(stdout) :
                stdout[i] = Repr(NamespaceRecord(n, extracted[n].pods,
                                                 extracted[n].persistent_volumes,
                                                 extracted[n].deployments,
                                                 extracted[n].daemonsets,
                                                 extracted[n].replicasets,
                                                 extracted[n].cronjobs))

WireKeys ==
    {"name", "pods", "persistent_volumes", "deployments", "daemonsets", "replicasets",
     "cronjobs"}

ResourceKind ==
    [pods |-> "Pod", deployments |-> "Deployment", daemonsets |-> "DaemonSet",
     replicasets |-> "ReplicaSet", cronjobs |-> "CronJob"]

\* the claims the volumes of the pods among the items refer to
ClaimNames(items) ==
    UNION {{Get(Get(v, "persistentVolumeClaim", EmptyMap), "claimName", "") :
                v \in Range(Get(Get(items[i], "spec", EmptyMap), "volumes", <<>>))} \ {""} :
           i \in {j \in DOMAIN items : items[j].kind = "Pod"}}

\* the names a summary map of the kind can hold, given the items of a namespace
SourceNames(kind, items) ==
    IF kind = "persistent_volumes" THEN ClaimNames(items)
    ELSE {items[i].metadata.name : i \in {j \in DOMAIN items : items[j].kind = ResourceKind[kind]}}

\* C9: every printed record has exactly the seven keys name, pods,
\* persistent_volumes, deployments, daemonsets, replicasets, cronjobs; a kind
\* the namespace has no resource of is an empty map, and no map holds an
\* entry that does not come from the resources fetched for its own namespace.
C9_SevenKeys ==
    \A i \in DOMAIN stdout : i > 1 =>
        /\ ~EvalRaises(stdout[i])
        /\ LET record == Eval(stdout[i])
               items == Get(fetched, record.name, <<>>)
           IN /\ DOMAIN record = WireKeys
              /\ \A kind \in WireKeys \ {"name"} :
                    /\ DOMAIN record[kind] \subseteq SourceNames(kind, items)
                    /\ SourceNames(kind, items) = {} => record[kind] = EmptyMap

\* a run that printed two namespaces: one with a deployment, a pod and a
\* volume, the other with no deployment and no volume
C9_Witness ==
    /\ Finished
    /\ exit_status = "ok"
    /\ Len(stdout) = 3
    /\ \E i, j \in 2..3 :
        /\ Eval(stdout[i]).deployments # EmptyMap
        /\ Eval(stdout[i]).persistent_volumes # EmptyMap
        /\ Eval(stdout[j]).deployments = EmptyMap
        /\ Eval(stdout[j]).persistent_volumes = EmptyMap
        /\ Eval(stdout[j]).cronjobs # EmptyMap

\* how a run against a cluster without namespaces ends: the header alone, exit 0
EmptyClusterOutcome ==
    LET names == get_namespaces(kubectl(<<KubectlPaths[1]>>, <<NamespaceList(EmptyMap)>>))
    IN <<"ok", Printed([n \in Range(names) |-> Namespace(n)])>>

\* a run with kubectl in place against an unchanging empty cluster ends so
EmptyClusterRun ==
    (Finished /\ KUBECTL # <<>> /\ AllAnswered /\ cluster = EmptyMap /\ changes = 0) =>
        <<exit_status, stdout>> = EmptyClusterOutcome

\* C10: when no executable kubectl is found, the run ends in an outcome that
\* differs from the outcome of a run against a cluster without namespaces.
C10_MissingToolDistinct ==
    (Finished /\ KUBECTL = <<>>) => <<exit_status, stdout>> # EmptyClusterOutcome

\* C11: when 'kubectl get all' of a namespace produces no output, the six
\* extractors return empty maps for the namespace and the run goes on; no
\* error is raised. Stated for the namespaces the main block holds.
C11_AbsentDataNotFatal ==
    \A i \in DOMAIN calls :
        (/\ calls[i].command = "get all"
         /\ ~calls[i].answered
         /\ KUBECTL # <<>>
         /\ calls[i].namespace \in DOMAIN namespaces) =>
            /\ exit_status \in {"running", "ok"}
            /\ calls[i].namespace \in DOMAIN extracted
            /\ \A kind \in WireKeys \ {"name"} :
                    extracted[calls[i].namespace][kind] = EmptyMap

\* ------------------------------------------------------------------------
\* Claims about one call of an extractor
\* ------------------------------------------------------------------------
\* the extractor was called and returned a summary
Returned(function) ==
    /\ extract_pc = "returned"
    /\ outcome.function = function
    /\ ~outcome.result.raised

ItemsOf(kind) == {dump[i] : i \in {j \in DOMAIN dump : dump[j].kind = kind}}

NameOf(x) == Get(Get(x, "metadata", EmptyMap), "name", "")

\* the kind of the first owner reference of a resource, "" without one
FirstOwnerKind(x) ==
    LET owners == Get(Get(x, "metadata", EmptyMap), "ownerReferences", <<>>)
    IN IF owners = <<>> THEN "" ELSE Get(owners[1], "kind", "")

\* C12: a ReplicaSet whose first owner reference has kind 'Deployment' is never
\* in the summary get_replicasets returns, with or without its deployment
\* among the items; a ReplicaSet without owner references or with a first
\* owner of another kind is in the summary when it has a name, replicas and a
\* ready or available count.
C12_ReplicasetExclusion ==
    Returned("get_replicasets") =>
        \A r \in ItemsOf("ReplicaSet") :
            /\ FirstOwnerKind(r) = "Deployment" => NameOf(r) \notin DOMAIN outcome.result.value
            /\ (/\ FirstOwnerKind(r) # "Deployment"
                /\ NameOf(r) # ""
                /\ Get(Get(r, "status", EmptyMap), "replicas", 0) # 0
                /\ \/ Get(r.status, "readyReplicas", 0) # 0
                   \/ Get(r.status, "availableReplicas", 0) # 0) =>
                    /\ NameOf(r) \in DOMAIN outcome.result.value
                    /\ outcome.result.value[NameOf(r)].replicas = r.status.replicas

\* the replicaset of a deployment that is not among the items, and a
\* replicaset of another owner that is in the summary
C12_Witness ==
    /\ Returned("get_replicasets")
    /\ ItemsOf("Deployment") = {}
    /\ \E r \in ItemsOf("ReplicaSet") : FirstOwnerKind(r) = "Deployment"
    /\ \E r \in ItemsOf("ReplicaSet") :
            /\ FirstOwnerKind(r) = "Rollout"
            /\ NameOf(r) \in DOMAIN outcome.result.value

\* the container statuses of the pod of the given name among the items
StatusesOf(name) ==
    UNION {Range(Get(Get(x, "status", EmptyMap), "containerStatuses", <<>>)) :
            x \in {y \in ItemsOf("Pod") : NameOf(y) = name}}

\* C13: in the summary get_pods returns, every container in the 'crashing'
\* bucket of a pod is in the 'waiting' bucket of the same pod, and it is a
\* container whose waiting reason is 'CrashLoopBackOff'.
C13_CrashingWithinWaiting ==
    Returned("get_pods") =>
        \A p \in DOMAIN outcome.result.value :
            LET containers == outcome.result.value[p].containers
            IN /\ Range(containers.crashing) \subseteq Range(containers.waiting)
               /\ \A c \in Range(containers.crashing) :
                    \E status \in StatusesOf(p) :
                        /\ status.name = c
                        /\ "waiting" \in DOMAIN status.state
                        /\ Get(status.state.waiting, "reason", "") = "CrashLoopBackOff"

\* a pod in a crash loop next to a pod whose container waits to be created
C13_Witness ==
    /\ Returned("get_pods")
    /\ \E p, q \in DOMAIN outcome.result.value :
        /\ outcome.result.value[p].containers.crashing # <<>>
        /\ outcome.result.value[q].containers.crashing = <<>>
        /\ outcome.result.value[q].containers.waiting # <<>>

\* get_persistent_volumes was called and returned or raised
Sampling ==
    /\ extract_pc = "returned"
    /\ outcome.function = "get_persistent_volumes"

\* the pods among the items are exactly the given ones
PodsAre(pods) == Range(dump) \cap PodItems = pods

\* C14: within one call of get_persistent_volumes df is run at most once per
\* mount name, whatever df prints; for two running pods that share one claim
\* under the same volume name it is run exactly once.
C14_MountDeduplication ==
    Sampling =>
        LET execs == outcome.result.execs
        IN /\ \A i, j \in DOMAIN execs : i # j => execs[i].mount # execs[j].mount
           /\ PodsAre({MountingPod("web", "data", "web", "/data"),
                       MountingPod("pods", "data", "web", "/data")}) => Len(execs) = 1

\* two pods share the claim 'web' as volume 'data', df prints nothing
\* parseable, and one call was made
C14_Witness ==
    /\ Sampling
    /\ PodsAre({MountingPod("web", "data", "web", "/data"),
                MountingPod("pods", "data", "web", "/data")})
    /\ ~outcome.result.raised
    /\ outcome.result.value = EmptyMap
    /\ Len(outcome.result.execs) = 1

\* the running pods of the model that mount a claim
MountingPods ==
    {MountingPod("web", "data", "web", "/data"), MountingPod("pods", "data", "web", "/data"),
     MountingPod("pods", "data", "pods", "/cache"), MountingPod("pods", "cache", "pods", "/cache")}

\* every pod among the items is one of them
AllMounting == Range(dump) \cap PodItems \subseteq MountingPods

\* claim name, mount name and mount path of the bindings the pods use
Bindings ==
    {<<x.spec.volumes[1].persistentVolumeClaim.claimName,
       x.spec.containers[1].volumeMounts[1].name,
       x.spec.containers[1].volumeMounts[1].mountPath>> :
        x \in Range(dump) \cap MountingPods}

\* the line has numeric capacity, used and available before its last two fields
Accepted(line) ==
    /\ Len(line) \in {5, 6}
    /\ \A k \in 2..4 : line[Len(line) - k].isdigit

Parseable(text) == \E i \in DOMAIN text : Accepted(text[i])

\* C15: for every distinct binding of a claim to a mount used by a running pod
\* exactly one df call is made and, if its output can be parsed, the claim is
\* in the summary; two running pods that mount two different claims under the
\* same volume name both get their claim sampled and recorded. Stated for the
\* calls that return.
C15_PerClaimBinding ==
    (Sampling /\ AllMounting /\ ~outcome.result.raised) =>
        /\ Len(outcome.result.execs) = Cardinality(Bindings)
        /\ \A b \in Bindings :
            /\ \E i \in DOMAIN outcome.result.execs :
                    outcome.result.execs[i].execute = <<"df", b[3]>>
            /\ Parseable(outcome.df_of[b[3]]) => b[1] \in DOMAIN outcome.result.value

\* the entry of the kind is well-formed: it has a name and a status
WellFormed(x) == NameOf(x) # "" /\ "status" \in DOMAIN x

\* C16: on items that may lack any nested field no extractor raises: each
\* returns a summary, and the well-formed cronjobs and pods are still in it.
\* (An exception of the df parsing is not counted here.)
C16_ExtractorsNeverRaise ==
    extract_pc = "returned" =>
        /\ outcome.result.raised => outcome.result.exception # "KeyError"
        /\ Returned("get_cronjobs") =>
                \A x \in ItemsOf("CronJob") :
                    WellFormed(x) => NameOf(x) \in DOMAIN outcome.result.value
        /\ Returned("get_pods") =>
                \A x \in ItemsOf("Pod") :
                    NameOf(x) # "" => NameOf(x) \in DOMAIN outcome.result.value

\* the bindings a df call was made for
SampledBindings ==
    {b \in Bindings : \E i \in DOMAIN outcome.result.execs :
                        /\ outcome.result.execs[i].execute = <<"df", b[3]>>
                        /\ outcome.result.execs[i].mount = b[2]}

\* C17: whatever df prints, get_persistent_volumes returns; a claim whose df
\* output has no line with numeric capacity, used and available is not in the
\* summary, and the claims whose output has one are.
C17_SamplingFailureSilent ==
    (Sampling /\ AllMounting) =>
        /\ ~outcome.result.raised
        /\ \A b \in SampledBindings :
                Parseable(outcome.df_of[b[3]]) <=> b[1] \in DOMAIN outcome.result.value

\* the resource has a name, a status and one of the two counts in the status
HasCount(x, ready, unavailable) ==
    /\ WellFormed(x)
    /\ \/ ready \in DOMAIN x.status
       \/ unavailable \in DOMAIN x.status

\* C18: get_deployments, get_daemonsets and get_replicasets include a resource
\* exactly when it has a name, a status and at least one of its ready and
\* unavailable counts in the status (for a replicaset: unless the owner rule
\* excludes it).
C18_InclusionPredicate ==
    /\ Returned("get_deployments") =>
            \A x \in ItemsOf("Deployment") :
                NameOf(x) # "" =>
                    (NameOf(x) \in DOMAIN outcome.result.value
                        <=> HasCount(x, "readyReplicas", "unavailableReplicas"))
    /\ Returned("get_daemonsets") =>
            \A x \in ItemsOf("DaemonSet") :
                NameOf(x) # "" =>
                    (NameOf(x) \in DOMAIN outcome.result.value
                        <=> HasCount(x, "numberReady", "numberUnavailable"))
    /\ Returned("get_replicasets") =>
            \A x \in ItemsOf("ReplicaSet") :
                (NameOf(x) # "" /\ FirstOwnerKind(x) # "Deployment") =>
                    (NameOf(x) \in DOMAIN outcome.result.value
                        <=> HasCount(x, "readyReplicas", "unavailableReplicas"))

\* the kubectl calls of the run with the given command and namespace
CallsOf(command, namespace) ==
    {i \in DOMAIN calls : calls[i].command = command /\ calls[i].namespace = namespace}

\* C19: in one run the namespace list is requested exactly once and the
\* resources of each listed namespace are requested exactly once.
C19_ExactlyOnceCalls ==
    (Finished /\ exit_status = "ok" /\ KUBECTL # <<>>) =>
        /\ Cardinality(CallsOf("get namespace", "")) = 1
        /\ \A n \in ListedNames : Cardinality(CallsOf("get all", n)) = 1

\* C20: in the summary get_persistent_volumes returns, the sum of 'used' over
\* all entries is at most the sum of 'capacity' over all entries, for every df
\* output the parser accepts.
C20_UsedWithinCapacity ==
    (Sampling /\ ~outcome.result.raised) =>
        LET entries == outcome.result.value
        IN SumOver([c \in DOMAIN entries |-> entries[c].used], DOMAIN entries)
                <= SumOver([c \in DOMAIN entries |-> entries[c].capacity], DOMAIN entries)

\* ------------------------------------------------------------------------
\* Further claims about the server-side plugin
\* ------------------------------------------------------------------------
\* C21: one call of discover_kubernetes_namespaces never yields the same item
\* twice, whatever the rule list: several rules may name the same namespace
\* and several default rules may enable the same kind.
C21_NoDuplicateItems ==
    Discovered => \A i, j \in DOMAIN services : i # j => services[i] # services[j]

\* the metrics yielded under the given name
MetricsOf(name) == SelectSeq(results, LAMBDA y : y.type = "Metric" /\ y.name = name)

\* C22: every counter the check reads for a replicaset item (replicas,
\* ready_replicas, unavailable_replicas) is a key of the entry get_replicasets
\* wrote, and the metric of the counter carries the entry's value.
C22_ReplicasetCountersAgree ==
    (NamedItem("replicasets") /\ ItemParts[3] \in DOMAIN ItemRecord.replicasets) =>
        \A counter \in {"replicas", "ready_replicas", "unavailable_replicas"} :
            /\ counter \in DOMAIN ItemEntry
            /\ \E i \in DOMAIN MetricsOf("replicasets_" \o counter) :
                    MetricsOf("replicasets_" \o counter)[i].value = ItemEntry[counter]

\* the resource the item names is in the map of its kind in the record
ItemPresent == ItemParts[3] \in DOMAIN ItemRecord[ItemParts[2]]

\* C23: the check of a named item (cronjob, daemonset, deployment, replicaset
\* or persistent volume) yields a Result with state OK only if the resource is
\* a key of the map of its kind in the namespace record. Stated for records
\* without pods.
C23_NoOkForVanished ==
    (/\ Checked
     /\ Len(ItemParts) = 3
     /\ ItemParts[2] \in Kinds \ {"pods"}
     /\ ItemRecord.pods = EmptyMap) =>
        ((\E i \in DOMAIN Results : Results[i].state = OK) => ItemPresent)

====
